---- MODULE Spec2Model ----
(***************************************************************************)
(* Model of the crawl execution engine of Harvester:                       *)
(*   RateLimiter            src/src/crawler/utils/rate_limiter.py          *)
(*   AntiDuplicationEngine  src/src/crawler/strategies/anti_duplication.py *)
(*   SmartCrawler           src/src/crawler/core/smart_crawler.py          *)
(*                                                                         *)
(* Times are integers in milliseconds, rates in thousandths of a request   *)
(* per second (1000 = 1.0 req/s); the float products of the source are     *)
(* computed in this fixed point, truncated.                                *)
(***************************************************************************)
EXTENDS Integers, Sequences, FiniteSets, TLC

\* ---------------------------------------------------------------- bounds
\* time.time() at the first step, far enough from 0 that
\* last_request.get(domain, 0) reads as "long ago"
StartTime == 100000
\* the clock stops advancing MaxTime ms after StartTime
MaxTime == 2000
\* one step of the clock, in ms
TickStep == 500
\* requests admitted in a behaviour, all hosts together
MaxRequests == 3
\* handle_response / configure_domain / reset_domain_limits calls in a behaviour
MaxReports == 2
\* the same, in a behaviour of reports alone
MaxAdaptReports == 8

Hosts == {"h1", "h2"}
Callers == {"c1", "c2"}

Free == "free"
\* the locals of a caller that is not inside wait_if_needed
NoDomain == "-"
\* a host with no entry in domain_limits; a host with one holds <<limit>>
NoLimit == <<>>

\* ------------------------------------------------------------- RateLimiter
VARIABLES
    now,              \* time.time()
    domain_limits,    \* RateLimiter.domain_limits: host -> <<RateLimit>>, NoLimit when absent
    request_history,  \* RateLimiter.request_history: host -> sequence of request times
    last_request,     \* RateLimiter.last_request: host -> time, 0 when absent
    domain_locks,     \* RateLimiter.domain_locks: host -> holder, Free when not held
    error_counts,     \* RateLimiter.error_counts: host -> count
    pc,               \* where each caller of wait_if_needed stands
    w_domain,         \* wait_if_needed: its argument
    w_current_time,   \* wait_if_needed: local current_time
    w_wait_time,      \* wait_if_needed: local wait_time
    n_reports,        \* calls that changed limits so far (bounds the behaviour)
    n_requests        \* requests admitted so far (bounds the behaviour)

rl_vars == <<now, domain_limits, request_history, last_request, domain_locks,
             error_counts, pc, w_domain, w_current_time, w_wait_time, n_reports,
             n_requests>>



RateLimit(rps, burst, delay) ==
    [requests_per_second |-> rps, burst_size |-> burst, delay_between_requests |-> delay]

default_limit == RateLimit(1000, 3, 1000)

Max(a, b) == IF a >= b THEN a ELSE b
Min(a, b) == IF a <= b THEN a ELSE b

\* self.domain_limits.get(domain, self.default_limit)
limit_of(domain) ==
    IF domain_limits[domain] = NoLimit THEN default_limit ELSE domain_limits[domain][1]

\* sum(1 for req_time in history if current_time - req_time <= window)
count_within(history, current_time, window) ==
    Cardinality({i \in 1..Len(history) : current_time - history[i] <= window})

\* while history and current_time - history[0] > 60: history.popleft()
RECURSIVE clean_history(_, _)
clean_history(history, current_time) ==
    IF history # <<>> /\ current_time - history[1] > 60000
    THEN clean_history(Tail(history), current_time)
    ELSE history

\* the first request time of the history inside the trailing second, 0 for None
oldest_in_window(history, current_time) ==
    LET inside == {i \in 1..Len(history) : current_time - history[i] <= 1000}
    IN IF inside = {} THEN 0
       ELSE history[CHOOSE i \in inside : \A j \in inside : i <= j]

\* the minimum-delay branch is taken: the wait is returned before the history is read
delay_branch(domain, current_time, limit) ==
    current_time - last_request[domain] < limit.delay_between_requests

\* mutant of calculate_wait_time: no minimum-delay branch
calculate_wait_time_no_delay(domain, current_time, limit) ==
    LET history == clean_history(request_history[domain], current_time)
        recent_requests == count_within(history, current_time, 1000)
        oldest == oldest_in_window(history, current_time)
    IN IF recent_requests * 1000 >= limit.requests_per_second /\ oldest # 0
       THEN 1000 - (current_time - oldest)
       ELSE IF Len(history) >= limit.burst_size
               /\ count_within(history, current_time, 10000) >= limit.burst_size
            THEN 10000 \div limit.burst_size
       ELSE 0

\* _calculate_wait_time(domain, current_time, limit)
calculate_wait_time(domain, current_time, limit) ==
    LET time_since_last == current_time - last_request[domain]
        min_delay == limit.delay_between_requests
        history == clean_history(request_history[domain], current_time)
        recent_requests == count_within(history, current_time, 1000)
        oldest == oldest_in_window(history, current_time)
    IN IF time_since_last < min_delay THEN min_delay - time_since_last
       ELSE IF recent_requests * 1000 >= limit.requests_per_second /\ oldest # 0
            THEN 1000 - (current_time - oldest)
       ELSE IF Len(history) >= limit.burst_size
               /\ count_within(history, current_time, 10000) >= limit.burst_size
            THEN 10000 \div limit.burst_size
       ELSE 0

\* the history deque after _calculate_wait_time returned
history_after_calculate(domain, current_time, limit) ==
    IF delay_branch(domain, current_time, limit)
    THEN request_history[domain]
    ELSE clean_history(request_history[domain], current_time)

\* deque(maxlen=100).append
deque_append(history, x) ==
    IF Len(history) >= 100 THEN Append(Tail(history), x) ELSE Append(history, x)

\* mutant of lock_free: the lock is not looked at
lock_free_ignored(domain) == TRUE

\* async with self.domain_locks[domain]: the lock can be taken
lock_free(domain) == domain_locks[domain] = Free

\* wait_if_needed up to its first suspension: takes the host's lock, reads the
\* clock and the limit, computes the wait; with no wait it records the request
\* and releases the lock in the same step, otherwise it sleeps holding the lock
wait_if_needed_enter(self, domain, after) ==
    LET current_time == now
        limit == limit_of(domain)
        wait_time == calculate_wait_time(domain, current_time, limit)
        history == history_after_calculate(domain, current_time, limit)
    IN /\ lock_free(domain)
       /\ n_requests' = n_requests + 1
       /\ IF wait_time > 0
          THEN /\ w_domain' = [w_domain EXCEPT ![self] = domain]
               /\ w_current_time' = [w_current_time EXCEPT ![self] = current_time]
               /\ w_wait_time' = [w_wait_time EXCEPT ![self] = wait_time]
               /\ domain_locks' = [domain_locks EXCEPT ![domain] = self]
               /\ request_history' = [request_history EXCEPT ![domain] = history]
               /\ pc' = [pc EXCEPT ![self] = "sleeping"]
               /\ UNCHANGED last_request
          ELSE /\ last_request' = [last_request EXCEPT ![domain] = current_time]
               /\ request_history' = [request_history EXCEPT ![domain] =
                                         deque_append(history, current_time)]
               /\ pc' = [pc EXCEPT ![self] = after]
               /\ UNCHANGED <<domain_locks, w_domain, w_current_time, w_wait_time>>
       /\ UNCHANGED <<now, domain_limits, error_counts, n_reports>>

\* wait_if_needed after asyncio.sleep(wait_time): records the request at
\* current_time + wait_time and releases the lock
wait_if_needed_wake(self, after) ==
    LET domain == w_domain[self]
        request_time == w_current_time[self] + w_wait_time[self]
    IN /\ pc[self] = "sleeping"
       /\ now >= request_time
       /\ last_request' = [last_request EXCEPT ![domain] = request_time]
       /\ request_history' = [request_history EXCEPT ![domain] =
                                 deque_append(request_history[domain], request_time)]
       /\ domain_locks' = [domain_locks EXCEPT ![domain] = Free]
       /\ pc' = [pc EXCEPT ![self] = after]
       /\ w_domain' = [w_domain EXCEPT ![self] = NoDomain]
       /\ w_current_time' = [w_current_time EXCEPT ![self] = 0]
       /\ w_wait_time' = [w_wait_time EXCEPT ![self] = 0]
       /\ UNCHANGED <<now, domain_limits, error_counts, n_reports, n_requests>>

\* mutant of rate_limit_exceeded_limit: the delay is left as it is
rate_limit_exceeded_limit_same_delay(current_limit) ==
    RateLimit(Max((current_limit.requests_per_second * 5) \div 10, 100),
              Max(current_limit.burst_size - 1, 1),
              current_limit.delay_between_requests)

\* mutant of rate_limit_exceeded_limit: the milder penalty of a server error
rate_limit_exceeded_limit_mild(current_limit) ==
    RateLimit(Max((current_limit.requests_per_second * 8) \div 10, 100),
              Max(current_limit.burst_size - 1, 1),
              Min((current_limit.delay_between_requests * 15) \div 10, 10000))

\* _handle_rate_limit_exceeded: the limit it stores
rate_limit_exceeded_limit(current_limit) ==
    RateLimit(Max((current_limit.requests_per_second * 5) \div 10, 100),
              Max(current_limit.burst_size - 1, 1),
              Min(current_limit.delay_between_requests * 2, 10000))

\* _handle_server_error: the limit it stores once error_counts exceeds 5
server_error_limit(current_limit) ==
    RateLimit(Max((current_limit.requests_per_second * 8) \div 10, 200),
              current_limit.burst_size,
              Min((current_limit.delay_between_requests * 15) \div 10, 5000))

\* _handle_successful_request: the limit it stores for a fast, error-free answer
successful_request_limit(current_limit) ==
    RateLimit(Min((current_limit.requests_per_second * 11) \div 10, 2000),
              Min(current_limit.burst_size + 1, 10),
              Max((current_limit.delay_between_requests * 95) \div 100, 500))

\* handle_response(domain, status_code, response_time), under the host's lock
handle_response(domain, status_code, response_time) ==
    /\ lock_free(domain)
    /\ n_reports' = n_reports + 1
    /\ IF status_code = 429
       THEN /\ domain_limits' = [domain_limits EXCEPT ![domain] =
                                    <<rate_limit_exceeded_limit(limit_of(domain))>>]
            /\ error_counts' = [error_counts EXCEPT ![domain] = @ + 1]
       ELSE IF status_code >= 500
       THEN /\ error_counts' = [error_counts EXCEPT ![domain] = @ + 1]
            /\ IF error_counts[domain] + 1 > 5
               THEN domain_limits' = [domain_limits EXCEPT ![domain] =
                                         <<server_error_limit(limit_of(domain))>>]
               ELSE UNCHANGED domain_limits
       ELSE IF status_code = 200
       THEN LET errors == Max(0, error_counts[domain] - 1)
            IN /\ error_counts' = [error_counts EXCEPT ![domain] = errors]
               /\ IF /\ response_time < 1000
                     /\ errors = 0
                     /\ limit_of(domain).requests_per_second < 2000
                  THEN domain_limits' = [domain_limits EXCEPT ![domain] =
                                            <<successful_request_limit(limit_of(domain))>>]
                  ELSE UNCHANGED domain_limits
       ELSE UNCHANGED <<domain_limits, error_counts>>
    /\ UNCHANGED <<now, request_history, last_request, domain_locks, pc, w_domain,
                   w_current_time, w_wait_time, n_requests>>

\* mutant of reset_domain_limits: the dictionaries are cleared, not the host's entries
reset_domain_limits_every_host(domain) ==
    /\ lock_free(domain)
    /\ n_reports' = n_reports + 1
    /\ domain_limits' = [h \in Hosts |-> NoLimit]
    /\ error_counts' = [h \in Hosts |-> 0]
    /\ request_history' = [h \in Hosts |-> <<>>]
    /\ last_request' = [h \in Hosts |-> 0]
    /\ UNCHANGED <<now, domain_locks, pc, w_domain, w_current_time, w_wait_time,
                   n_requests>>

\* reset_domain_limits(domain), under the host's lock
reset_domain_limits(domain) ==
    /\ lock_free(domain)
    /\ n_reports' = n_reports + 1
    /\ domain_limits' = [domain_limits EXCEPT ![domain] = NoLimit]
    /\ error_counts' = [error_counts EXCEPT ![domain] = 0]
    /\ request_history' = [request_history EXCEPT ![domain] = <<>>]
    /\ last_request' = [last_request EXCEPT ![domain] = 0]
    /\ UNCHANGED <<now, domain_locks, pc, w_domain, w_current_time, w_wait_time,
                   n_requests>>

\* the limits configure_politeness_rules hands to configure_domain
politeness_rules == {RateLimit(500, 2, 2000), RateLimit(1500, 5, 700)}

\* configure_domain(domain, ...): a plain method, it takes no lock
configure_domain(domain, limit) ==
    /\ n_reports' = n_reports + 1
    /\ domain_limits' = [domain_limits EXCEPT ![domain] = <<limit>>]
    /\ UNCHANGED <<now, request_history, last_request, domain_locks, error_counts, pc,
                   w_domain, w_current_time, w_wait_time, n_requests>>

\* the clock advances
Tick(step, limit) ==
    /\ now + step <= StartTime + limit
    /\ now' = now + step
    /\ UNCHANGED <<domain_limits, request_history, last_request, domain_locks,
                   error_counts, pc, w_domain, w_current_time, w_wait_time, n_reports,
                   n_requests>>

\* status codes and response times (ms) a server answers with
StatusCodes == {200, 404, 429, 500}
ResponseTimes == {200, 1500}

\* ------------------------------------------------------- content fingerprint
\* the characters of a content: a letter in lower and in upper case, a
\* whitespace and a punctuation mark
Chars == {"a", "A", " ", "."}
\* the longest content
MaxContentLen == 3
\* the contents: the strings of up to MaxContentLen characters
Contents == UNION {[1..n -> Chars] : n \in 0..MaxContentLen}

VARIABLES
    h_content,      \* the contents given to _calculate_content_hash
    h_hash          \* the hashes it returned for them

fp_vars == <<h_content, h_hash>>

\* no content is being hashed
NoHashing == h_content = <<>> /\ h_hash = <<>>

\* str.lower
lower(str) == [i \in DOMAIN str |-> IF str[i] = "A" THEN "a" ELSE str[i]]

RECURSIVE lstrip(_)
\* str.lstrip: the leading whitespace is removed
lstrip(str) ==
    IF str # <<>> /\ Head(str) = " " THEN lstrip(Tail(str)) ELSE str

RECURSIVE rstrip(_)
\* str.rstrip: the trailing whitespace is removed
rstrip(str) ==
    IF str # <<>> /\ str[Len(str)] = " " THEN rstrip(SubSeq(str, 1, Len(str) - 1))
    ELSE str

\* str.strip
strip(str) == rstrip(lstrip(str))

RECURSIVE collapse_whitespace(_)
\* re.sub(r'\s+', ' ', str): every run of whitespace becomes one space
collapse_whitespace(str) ==
    IF str = <<>> THEN <<>>
    ELSE IF Head(str) = " "
         THEN <<" ">> \o collapse_whitespace(lstrip(str))
         ELSE <<Head(str)>> \o collapse_whitespace(Tail(str))

\* hashlib.sha256(...).hexdigest(): strings that differ have different digests
sha256(str) == <<"sha256", str>>

\* _calculate_content_hash(content)
calculate_content_hash(content) ==
    sha256(collapse_whitespace(lower(strip(content))))

\* --------------------------------------------------- AntiDuplicationEngine
\* the clock of the database, in days, stops at MaxDay
MaxDay == 100
\* one step of that clock, in days
DayStep == 50
\* register_content_hash is not started for a hash seen this often as a duplicate
MaxDuplicateCount == 1

Hashes == {"f1", "f2"}
Workers == {"w1", "w2"}
\* the days_to_keep that cleanup_old_hashes is called with (90 is its default)
DaysToKeep == {20, 90}
NoHash == "-"

VARIABLES
    today,           \* NOW() of the database, in days
    content_hashes,  \* table content_hashes: sequence of rows
    hash_cache,      \* AntiDuplicationEngine.hash_cache: set of the keys of the dict
    d_pc,            \* where each caller of the engine stands
    d_hash,          \* argument content_hash of the call in progress
    d_found,         \* is_duplicate / register_content_hash: what the SELECT returned
    d_known,         \* _load_known_hashes: local known_hashes
    d_days,          \* cleanup_old_hashes: argument days_to_keep
    d_ret,           \* what the last finished call returned
    registered,      \* history: hashes registered with success and not deleted since
    d_live           \* history: the hash of the is_duplicate in progress was in
                     \* registered when the call began and has been since

dup_vars == <<today, content_hashes, hash_cache, d_pc, d_hash, d_found, d_known,
              d_days, d_ret, registered, d_live>>

\* a row of content_hashes (models.py ContentHash), first_seen_at in days
ContentHash(content_hash, first_seen_at) ==
    [content_hash |-> content_hash, first_seen_at |-> first_seen_at,
     duplicate_count |-> 0]

\* the rows of content_hashes with a content_hash
rows_of(content_hash) ==
    {i \in 1..Len(content_hashes) : content_hashes[i].content_hash = content_hash}

\* mutant of check_exact_duplicate: the table is not looked at
check_exact_duplicate_skipped(content_hash) == FALSE

\* SELECT id FROM content_hashes WHERE content_hash = %s ... fetchone() is not None
check_exact_duplicate(content_hash) == rows_of(content_hash) # {}

\* SELECT content_hash FROM content_hashes WHERE first_seen_at > NOW() - 30 days
known_hashes ==
    {content_hashes[i].content_hash :
        i \in {j \in 1..Len(content_hashes) : content_hashes[j].first_seen_at > today - 30}}

\* mutant of cleanup_condition: duplicate_count is not looked at
cleanup_condition_by_age(row, days_to_keep) ==
    row.first_seen_at < today - days_to_keep

\* the WHERE clause of the DELETE of cleanup_old_hashes
cleanup_condition(row, days_to_keep) ==
    /\ row.first_seen_at < today - days_to_keep
    /\ row.duplicate_count = 0

\* content_hash = Column(String(64), nullable=False, unique=True): an INSERT
\* of a second row with the content_hash is refused (IntegrityError)
unique_violation(content_hash) == rows_of(content_hash) # {}

RECURSIVE select_rows(_, _)
\* the rows of a table that are kept by a DELETE with the days_to_keep
select_rows(rows, days_to_keep) ==
    IF rows = <<>> THEN <<>>
    ELSE IF cleanup_condition(Head(rows), days_to_keep)
         THEN select_rows(Tail(rows), days_to_keep)
         ELSE <<Head(rows)>> \o select_rows(Tail(rows), days_to_keep)

\* UPDATE content_hashes SET duplicate_count = duplicate_count + 1 WHERE content_hash = %s
update_duplicate_count(content_hash) ==
    [i \in 1..Len(content_hashes) |->
        IF content_hashes[i].content_hash = content_hash
        THEN [content_hashes[i] EXCEPT !.duplicate_count = @ + 1]
        ELSE content_hashes[i]]

\* the hashes of the rows of content_hashes
stored_hashes == {content_hashes[i].content_hash : i \in 1..Len(content_hashes)}

d_call(self, to, hash) ==
    /\ d_pc' = [d_pc EXCEPT ![self] = to]
    /\ d_hash' = [d_hash EXCEPT ![self] = hash]

\* is_duplicate, lines 62-66: the cache is looked up; a hit returns True, a
\* miss goes on to the database
is_duplicate_begin(self, content_hash) ==
    /\ d_pc[self] = "idle"
    /\ IF content_hash \in hash_cache
       THEN /\ d_ret' = [d_ret EXCEPT ![self] = "True"]
            /\ d_call(self, "returned", content_hash)
            /\ d_live' = [d_live EXCEPT ![self] = content_hash \in registered]
       ELSE /\ d_call(self, "dup_select", content_hash)
            /\ d_live' = [d_live EXCEPT ![self] = content_hash \in registered]
            /\ d_ret' = [d_ret EXCEPT ![self] = "-"]
    /\ UNCHANGED <<today, fp_vars, content_hashes, hash_cache, d_found, d_known, d_days,
                   registered>>

\* _check_exact_duplicate: the SELECT runs
is_duplicate_select(self) ==
    /\ d_pc[self] = "dup_select"
    /\ d_found' = [d_found EXCEPT ![self] = check_exact_duplicate(d_hash[self])]
    /\ d_pc' = [d_pc EXCEPT ![self] = "dup_fetched"]
    /\ UNCHANGED <<today, fp_vars, content_hashes, hash_cache, d_hash, d_known, d_days, d_ret,
                   registered, d_live>>

\* is_duplicate, lines 66-76, after _check_exact_duplicate returned; similar is
\* the answer of _check_content_similarity for a content of more than 200
\* characters, FALSE when no such content is given
is_duplicate_end(self, similar) ==
    /\ d_pc[self] = "dup_fetched"
    /\ IF d_found[self]
       THEN /\ hash_cache' = hash_cache \cup {d_hash[self]}
            /\ d_ret' = [d_ret EXCEPT ![self] = "True"]
       ELSE /\ UNCHANGED hash_cache
            /\ d_ret' = [d_ret EXCEPT ![self] = IF similar THEN "True" ELSE "False"]
    /\ d_pc' = [d_pc EXCEPT ![self] = "returned"]
    /\ d_found' = [d_found EXCEPT ![self] = FALSE]
    /\ UNCHANGED <<today, fp_vars, content_hashes, d_hash, d_known, d_days, registered, d_live>>

\* the caller takes the returned value
d_return(self) ==
    /\ d_pc[self] = "returned"
    /\ d_call(self, "idle", NoHash)
    /\ d_ret' = [d_ret EXCEPT ![self] = "-"]
    /\ d_live' = [d_live EXCEPT ![self] = FALSE]
    /\ UNCHANGED <<today, fp_vars, content_hashes, hash_cache, d_found, d_known, d_days,
                   registered>>

\* register_content_hash, lines 179-186: the SELECT runs
register_select(self, content_hash) ==
    /\ d_pc[self] = "idle"
    /\ \A i \in rows_of(content_hash) :
           content_hashes[i].duplicate_count < MaxDuplicateCount
    /\ d_call(self, "reg_selected", content_hash)
    /\ d_found' = [d_found EXCEPT ![self] = rows_of(content_hash) # {}]
    /\ UNCHANGED <<today, fp_vars, content_hashes, hash_cache, d_known, d_days, d_ret,
                   registered, d_live>>

\* register_content_hash, lines 186-207: with a row found the UPDATE runs and
\* False is returned; with none the INSERT is committed, or refused by the
\* unique constraint, which raises out of the call
register_write(self) ==
    /\ d_pc[self] = "reg_selected"
    /\ d_found' = [d_found EXCEPT ![self] = FALSE]
    /\ IF d_found[self]
       THEN /\ content_hashes' = update_duplicate_count(d_hash[self])
            /\ d_ret' = [d_ret EXCEPT ![self] = "False"]
            /\ d_pc' = [d_pc EXCEPT ![self] = "returned"]
       ELSE IF unique_violation(d_hash[self])
       THEN /\ UNCHANGED content_hashes
            /\ d_ret' = [d_ret EXCEPT ![self] = "IntegrityError"]
            /\ d_pc' = [d_pc EXCEPT ![self] = "returned"]
       ELSE /\ content_hashes' = Append(content_hashes, ContentHash(d_hash[self], today))
            /\ d_pc' = [d_pc EXCEPT ![self] = "reg_inserted"]
            /\ UNCHANGED d_ret
    /\ UNCHANGED <<today, fp_vars, hash_cache, d_hash, d_known, d_days, registered, d_live>>

\* register_content_hash, lines 209-212, after the commit: the cache is
\* updated and True is returned
register_end(self) ==
    /\ d_pc[self] = "reg_inserted"
    /\ hash_cache' = hash_cache \cup {d_hash[self]}
    /\ d_ret' = [d_ret EXCEPT ![self] = "True"]
    /\ d_pc' = [d_pc EXCEPT ![self] = "returned"]
    /\ registered' = registered \cup (stored_hashes \cap {d_hash[self]})
    /\ UNCHANGED <<today, fp_vars, content_hashes, d_hash, d_found, d_known, d_days, d_live>>

\* cleanup_old_hashes, lines 314-322: the DELETE is committed
cleanup_delete(self, days_to_keep) ==
    LET kept == select_rows(content_hashes, days_to_keep)
        kept_hashes == {kept[i].content_hash : i \in 1..Len(kept)}
    IN /\ d_pc[self] = "idle"
       /\ content_hashes' = kept
       /\ d_days' = [d_days EXCEPT ![self] = days_to_keep]
       /\ d_pc' = [d_pc EXCEPT ![self] = "cl_deleted"]
       /\ registered' = registered \cap kept_hashes
       /\ d_live' = [w \in DOMAIN d_live |-> d_live[w] /\ d_hash[w] \in kept_hashes]
       /\ UNCHANGED <<today, fp_vars, hash_cache, d_hash, d_found, d_known, d_ret>>

\* _load_known_hashes, lines 39-45: the SELECT runs
load_known_hashes_select(self) ==
    /\ d_pc[self] = "cl_deleted"
    /\ d_known' = [d_known EXCEPT ![self] = known_hashes]
    /\ d_pc' = [d_pc EXCEPT ![self] = "cl_loaded"]
    /\ UNCHANGED <<today, fp_vars, content_hashes, hash_cache, d_hash, d_found, d_days, d_ret,
                   registered, d_live>>

\* _load_known_hashes, line 46, and the return of cleanup_old_hashes
cleanup_end(self) ==
    /\ d_pc[self] = "cl_loaded"
    /\ hash_cache' = d_known[self]
    /\ d_known' = [d_known EXCEPT ![self] = {}]
    /\ d_days' = [d_days EXCEPT ![self] = 0]
    /\ d_pc' = [d_pc EXCEPT ![self] = "idle"]
    /\ UNCHANGED <<today, fp_vars, content_hashes, d_hash, d_found, d_ret, registered, d_live>>

\* the clock of the database advances
DayTick ==
    /\ today + DayStep <= MaxDay
    /\ today' = today + DayStep
    /\ UNCHANGED <<fp_vars, content_hashes, hash_cache, d_pc, d_hash, d_found, d_known, d_days,
                   d_ret, registered, d_live>>

\* ------------------------------------------------------------ SmartCrawler
\* settings.crawler_max_workers (config.py, 50 unless the environment sets it)
crawler_max_workers == 1
\* asyncio.Semaphore(min(10, ...)): the 10
SemaphoreLimit == 10
\* LIMIT 50 of update_check_crawl, scaled with the number of articles so that
\* the table can hold more articles than are checked
update_check_limit == 2
\* the runs of crawl_source on a source, one after another
MaxRuns == 2
\* the clock stops RecrawlMaxTime ms after StartTime in consecutive crawls
RecrawlMaxTime == 5000
\* batch_size of crawl_source (20 in the source), scaled with the number of
\* URLs so that a run spans several batches and a batch exceeds the semaphore
batch_size == 2
\* the clock stops CrawlMaxTime ms after StartTime in a crawl
CrawlMaxTime == 3000
\* one step of the clock in a crawl, in ms
CrawlTickStep == 1000

Urls == {"u1", "u2", "u3"}
\* the host (netloc) of each URL; "h1" is source.domain, "u3" is a URL of the
\* sitemap or feed on another host
url_host == [u \in Urls |-> IF u = "u3" THEN "h2" ELSE "h1"]
source_domain == "h1"
None == "None"

VARIABLES
    articles,       \* table articles: sequence of rows
    articles0,      \* history: the table when the run began
    source,         \* the row of the source in table sources
    robots_cache,   \* SmartCrawler.robots_cache[source.domain]: "-" when absent, else
                    \* what the cached parser answers for source.url
    o_pc,           \* crawl_source: where it stands
    urls_to_crawl,  \* crawl_source: local urls_to_crawl
    o_batch,        \* crawl_source: local i, as an index from 1
    o_next,         \* crawl_source: position of the result being aggregated
    o_sleep_until,  \* crawl_source: end of its asyncio.sleep(1)
    stats,          \* crawl_source: local stats
    semaphore,      \* crawl_source: free permits of the asyncio.Semaphore
    result,         \* the CrawlResult of each URL's task
    fetched,        \* history: the URLs a GET request was sent for
    failed,         \* history: the URLs whose GET or extraction failed
    etag_matched,   \* history: the URLs whose HEAD was answered with the ETag
                    \* of the article stored for the URL
    unsaved         \* history: the URLs whose result _process_crawl_result
                    \* failed to store

crawl_vars == <<articles, articles0, source, robots_cache, o_pc, urls_to_crawl, o_batch, o_next,
                o_sleep_until, stats, semaphore, result, fetched, failed, etag_matched, unsaved>>


vars == <<rl_vars, dup_vars, crawl_vars, fp_vars>>

\* _calculate_content_hash is called for the contents
hash_contents ==
    /\ h_content # <<>>
    /\ h_hash = <<>>
    /\ h_hash' = [i \in DOMAIN h_content |-> calculate_content_hash(h_content[i])]
    /\ UNCHANGED <<rl_vars, dup_vars, crawl_vars, h_content>>

\* the variables of the rate limiter but pc
rl_rest == <<now, domain_limits, request_history, last_request, domain_locks,
             error_counts, w_domain, w_current_time, w_wait_time, n_reports, n_requests>>

\* dataclass CrawlResult, with its defaults
CrawlResult(url) ==
    [url |-> url, success |-> FALSE, status_code |-> 0, content_hash |-> None,
     is_duplicate |-> FALSE, error_message |-> ""]

\* a row of articles (models.py Article)
Article(url, content_hash, etag, last_modified) ==
    [url |-> url, content_hash |-> content_hash, etag |-> etag,
     last_modified |-> last_modified]

\* the rows of articles with a url
article_rows(url) == {i \in 1..Len(articles) : articles[i].url = url}

\* mutant of check_content_freshness: the stored ETag is not compared
check_content_freshness_no_etag(url, etag, last_modified) ==
    IF article_rows(url) = {} THEN TRUE
    ELSE LET existing == articles[CHOOSE i \in article_rows(url) : TRUE]
         IN ~(last_modified # None /\ existing.last_modified = last_modified)

\* _check_content_freshness(url, etag, last_modified)
check_content_freshness(url, etag, last_modified) ==
    IF article_rows(url) = {} THEN TRUE
    ELSE LET existing == articles[CHOOSE i \in article_rows(url) : TRUE]
         IN IF etag # None /\ existing.etag = etag THEN FALSE
            ELSE IF last_modified # None /\ existing.last_modified = last_modified
                 THEN FALSE
            ELSE TRUE

\* what session.head(url) gives: status 0 stands for an exception; an answer
\* with another status than 200 may carry headers too
HeadResponses ==
    {[status |-> 0, etag |-> None, last_modified |-> None],
     [status |-> 404, etag |-> "e1", last_modified |-> None],
     [status |-> 200, etag |-> None, last_modified |-> None],
     [status |-> 200, etag |-> "e1", last_modified |-> None],
     [status |-> 200, etag |-> "e2", last_modified |-> "m1"],
     [status |-> 200, etag |-> "e2", last_modified |-> None]}

\* _should_crawl_url(url), given the answer to its HEAD request
should_crawl_url(url, head) ==
    IF head.status = 0 THEN TRUE
    ELSE IF head.status # 200 THEN TRUE
    ELSE IF head.etag # None \/ head.last_modified # None
         THEN check_content_freshness(url, head.etag, head.last_modified)
    ELSE TRUE

\* what session.get(url) and the extraction give: asyncio.TimeoutError, another
\* exception, a status, and for a 200 the hash of the extracted content (None
\* when nothing is extracted)
GetResponses ==
    {[kind |-> "timeout", status |-> 0, content_hash |-> None],
     [kind |-> "exception", status |-> 0, content_hash |-> None],
     [kind |-> "response", status |-> 429, content_hash |-> None],
     [kind |-> "response", status |-> 200, content_hash |-> None],
     [kind |-> "response", status |-> 200, content_hash |-> "f1"],
     [kind |-> "response", status |-> 200, content_hash |-> "f2"]}

\* the GET of a URL fails: a timeout, a connection error, an HTTP error
\* status, or nothing extracted
fetch_fails(get) ==
    get.kind # "response" \/ get.status # 200 \/ get.content_hash = None

\* the HEAD of a URL is answered (200) with the ETag of the article stored for it
etag_match(url, head) ==
    /\ head.status = 200
    /\ head.etag # None
    /\ \E i \in article_rows(url) : articles[i].etag = head.etag

\* anti_dup_engine.is_duplicate(content_hash, url), no content given: the
\* cache, then the table
is_duplicate(content_hash) ==
    content_hash \in hash_cache \/ check_exact_duplicate(content_hash)

\* _crawl_single_url, lines 371-412: the CrawlResult for an answer to the GET
crawl_result(url, get) ==
    IF get.kind = "timeout"
    THEN [CrawlResult(url) EXCEPT !.error_message = "Timeout"]
    ELSE IF get.kind = "exception"
    THEN [CrawlResult(url) EXCEPT !.error_message = "exception"]
    ELSE IF get.status # 200
    THEN [CrawlResult(url) EXCEPT !.status_code = get.status, !.error_message = "HTTP"]
    ELSE IF get.content_hash = None
    THEN [CrawlResult(url) EXCEPT !.status_code = 200,
                                  !.error_message = "Impossible d'extraire le contenu"]
    ELSE [CrawlResult(url) EXCEPT !.status_code = 200,
                                  !.content_hash = get.content_hash,
                                  !.is_duplicate = is_duplicate(get.content_hash),
                                  !.success = TRUE]

\* the local stats of crawl_source when it begins
Stats0 ==
    [pages_crawled |-> 0, pages_processed |-> 0, pages_failed |-> 0, new_articles |-> 0,
     updated_articles |-> 0, duplicates_found |-> 0, errors |-> <<>>]

\* mutant of aggregate: a failed result with an HTTP status is not counted
aggregate_http_uncounted(st, res, article_created) ==
    LET crawled == [st EXCEPT !.pages_crawled = @ + 1]
    IN IF res.success
       THEN IF res.is_duplicate
            THEN [crawled EXCEPT !.duplicates_found = @ + 1]
            ELSE IF article_created
                 THEN [crawled EXCEPT !.new_articles = @ + 1, !.pages_processed = @ + 1]
                 ELSE crawled
       ELSE IF res.status_code # 0 THEN crawled
       ELSE [crawled EXCEPT !.pages_failed = @ + 1, !.errors = Append(@, res.url)]

\* crawl_source, lines 154-171: one result counted into stats; article_created
\* is what _process_crawl_result returned for it
aggregate(st, res, article_created) ==
    LET crawled == [st EXCEPT !.pages_crawled = @ + 1]
    IN IF res.success
       THEN IF res.is_duplicate
            THEN [crawled EXCEPT !.duplicates_found = @ + 1]
            ELSE IF article_created
                 THEN [crawled EXCEPT !.new_articles = @ + 1, !.pages_processed = @ + 1]
                 ELSE crawled
       ELSE [crawled EXCEPT !.pages_failed = @ + 1, !.errors = Append(@, res.url)]

\* _process_crawl_result: a new article is created (the URL has no row)
creates_article(res) == article_rows(res.url) = {}

\* _process_crawl_result: the table articles after it
articles_after(res) ==
    IF creates_article(res)
    THEN Append(articles, Article(res.url, res.content_hash, None, None))
    ELSE [i \in 1..Len(articles) |->
             IF articles[i].url = res.url /\ articles[i].content_hash # res.content_hash
             THEN [articles[i] EXCEPT !.content_hash = res.content_hash]
             ELSE articles[i]]

\* register_content_hash run to its end with no other caller of the engine:
\* the table content_hashes after it
content_hashes_after_register(content_hash) ==
    IF rows_of(content_hash) # {}
    THEN update_duplicate_count(content_hash)
    ELSE Append(content_hashes, ContentHash(content_hash, today))

\* mutant of semaphore_value: max for min
semaphore_value_max == Max(SemaphoreLimit, crawler_max_workers)

\* min(10, settings.crawler_max_workers)
semaphore_value == Min(SemaphoreLimit, crawler_max_workers)

\* the positions in urls_to_crawl of the batch tasks[i:i + batch_size]
batch(i) == {k \in 1..Len(urls_to_crawl) : i <= k /\ k < i + batch_size}

\* the lists _discover_urls may return: source.url ("u1") and discovered URLs
UrlLists == {<<"u1", "u2">>, <<"u1", "u2", "u3">>, <<"u3", "u1", "u2">>}

\* mutant of except_Exception: the handler is missing
except_Exception_missing(exc) == FALSE

\* except Exception as e (crawl_source, line 179): the exception is caught;
\* asyncio.CancelledError is no Exception
except_Exception(exc) == exc # "CancelledError"

\* what reading the source gives: the row, no row (ValueError is raised), or
\* a failure of the database session
SourceLookups == {"found", "ValueError", "OperationalError"}

\* str(e) of the exception of a failed lookup
str_of(exc) == IF exc = "ValueError" THEN "Source non trouvee" ELSE exc

\* crawl_source, lines 122-127 and 179-183: the source is read; an exception
\* of the lookup, and the ValueError raised when there is no row, is caught
\* inside crawl_source, noted in errors, and the statistics are returned
get_source ==
    /\ o_pc = "start"
    /\ \E lookup \in SourceLookups :
          IF lookup = "found"
          THEN o_pc' = "robots" /\ UNCHANGED stats
          ELSE IF except_Exception(lookup)
               THEN /\ stats' = [stats EXCEPT !.errors =
                                    Append(@, "Erreur generale: " \o str_of(lookup))]
                    /\ o_pc' = "done"
               ELSE o_pc' = "raised" /\ UNCHANGED stats
    /\ UNCHANGED <<rl_vars, dup_vars, fp_vars, articles, articles0, source, robots_cache,
                   urls_to_crawl, o_batch, o_next, o_sleep_until, semaphore, result,
                   fetched, failed, etag_matched, unsaved>>

\* what the GET of robots.txt and the parser give for source.url: an
\* exception, or a parser that allows or disallows the URL
RobotsAnswers == {"exception", "allow", "disallow"}

\* mutant of robots_blocked: the answer is not looked at
robots_blocked_never(respect_robots_txt, robots_allowed) == FALSE

\* crawl_source, lines 130-132: the run is blocked
robots_blocked(respect_robots_txt, robots_allowed) ==
    respect_robots_txt /\ ~robots_allowed

\* crawl_source, lines 129-134, with _check_robots_txt: a source that does
\* not respect robots.txt goes on; otherwise the cached parser, or the parser
\* of a robots.txt fetched now, is asked (an exception allows and caches
\* nothing); a disallowed run notes it in errors and returns the statistics
check_robots_txt ==
    /\ o_pc = "robots"
    /\ \E answer \in RobotsAnswers :
          LET respect_robots_txt == source.respect_robots_txt
              fetched_now == respect_robots_txt /\ robots_cache = "-"
              cache == IF fetched_now /\ answer # "exception" THEN answer
                       ELSE robots_cache
              robots_allowed == cache # "disallow"
          IN /\ robots_cache' = cache
             /\ IF robots_blocked(respect_robots_txt, robots_allowed)
                THEN /\ stats' = [stats EXCEPT !.errors =
                                     Append(@, "Bloque par robots.txt")]
                     /\ o_pc' = "done"
                ELSE /\ o_pc' = "discover"
                     /\ UNCHANGED stats
    /\ UNCHANGED <<rl_vars, dup_vars, fp_vars, articles, articles0, source, urls_to_crawl,
                   o_batch, o_next, o_sleep_until, semaphore, result, fetched, failed,
                   etag_matched, unsaved>>

\* crawl_source, lines 137-145: the URLs are discovered (one of lists), the
\* semaphore and the coroutines of the tasks are created
discover_urls_in(lists) ==
    /\ o_pc = "discover"
    /\ \E urls \in lists :
          /\ urls_to_crawl' = urls
          /\ pc' = [u \in Urls |-> IF \E k \in 1..Len(urls) : urls[k] = u
                                   THEN "created" ELSE "-"]
    /\ semaphore' = semaphore_value
    /\ o_batch' = 1
    /\ o_pc' = "batch"
    /\ UNCHANGED <<rl_rest, dup_vars, fp_vars, articles, articles0, source, robots_cache, o_next,
                   o_sleep_until, stats, result, fetched, failed, etag_matched, unsaved>>

\* crawl_source, lines 137-145, when _discover_urls may return any of UrlLists
discover_urls == discover_urls_in(UrlLists)

\* crawl_source, lines 149-151: asyncio.gather starts the tasks of the batch
gather_batch ==
    /\ o_pc = "batch"
    /\ pc' = [u \in Urls |-> IF \E k \in batch(o_batch) : urls_to_crawl[k] = u
                             THEN "sem_wait" ELSE pc[u]]
    /\ o_pc' = "gather"
    /\ UNCHANGED <<rl_rest, dup_vars, fp_vars, articles, articles0, source, robots_cache, urls_to_crawl,
                   o_batch, o_next, o_sleep_until, stats, semaphore, result, fetched,
                   failed, etag_matched, unsaved>>

\* _crawl_single_url_with_semaphore, line 352: async with semaphore
semaphore_acquire(u) ==
    /\ pc[u] = "sem_wait"
    /\ semaphore > 0
    /\ semaphore' = semaphore - 1
    /\ pc' = [pc EXCEPT ![u] = "admit"]
    /\ UNCHANGED <<rl_rest, dup_vars, fp_vars, articles, articles0, source, robots_cache, o_pc, urls_to_crawl,
                   o_batch, o_next, o_sleep_until, stats, result, fetched, failed, etag_matched, unsaved>>

\* the domain _crawl_single_url_with_semaphore hands to wait_if_needed for a URL
admission_domain(u) == source_domain

\* _crawl_single_url_with_semaphore, line 354: wait_if_needed begins
admit(u) ==
    /\ pc[u] = "admit"
    /\ wait_if_needed_enter(u, admission_domain(u), "probe")
    /\ UNCHANGED <<dup_vars, fp_vars, crawl_vars>>

\* _crawl_single_url_with_semaphore, line 354: wait_if_needed ends
admit_wake(u) ==
    /\ wait_if_needed_wake(u, "probe")
    /\ UNCHANGED <<dup_vars, fp_vars, crawl_vars>>

\* _crawl_single_url, lines 363-369: the HEAD request is answered (by one of
\* heads); an unchanged page ends the task, which releases the semaphore
probe_url_with(u, heads) ==
    /\ pc[u] = "probe"
    /\ \E head \in heads :
          /\ etag_matched' = IF etag_match(u, head) THEN etag_matched \cup {u}
                              ELSE etag_matched
          /\ IF should_crawl_url(u, head)
             THEN /\ pc' = [pc EXCEPT ![u] = "fetch"]
                  /\ UNCHANGED <<result, semaphore>>
             ELSE /\ pc' = [pc EXCEPT ![u] = "done"]
                  /\ result' = [result EXCEPT ![u] =
                         [CrawlResult(u) EXCEPT !.success = TRUE, !.is_duplicate = TRUE]]
                  /\ semaphore' = semaphore + 1
    /\ UNCHANGED <<rl_rest, dup_vars, fp_vars, articles, articles0, source, robots_cache, o_pc, urls_to_crawl,
                   o_batch, o_next, o_sleep_until, stats, fetched, failed, unsaved>>

\* _crawl_single_url, lines 363-369, when the server may answer anything
probe_url(u) == probe_url_with(u, HeadResponses)

\* _crawl_single_url, lines 371-412: the GET request is answered (by one of
\* gets), the content extracted, hashed and looked up; the task ends and
\* releases the semaphore
fetch_url_with(u, gets) ==
    /\ pc[u] = "fetch"
    /\ \E get \in gets :
          /\ fetched' = fetched \cup {u}
          /\ failed' = IF fetch_fails(get) THEN failed \cup {u} ELSE failed
          /\ result' = [result EXCEPT ![u] = crawl_result(u, get)]
          /\ hash_cache' = IF get.content_hash # None
                              /\ get.content_hash \notin hash_cache
                              /\ check_exact_duplicate(get.content_hash)
                           THEN hash_cache \cup {get.content_hash}
                           ELSE hash_cache
    /\ pc' = [pc EXCEPT ![u] = "done"]
    /\ semaphore' = semaphore + 1
    /\ UNCHANGED <<rl_rest, today, fp_vars, content_hashes, d_pc, d_hash, d_found, d_known,
                   d_days, d_ret, registered, d_live, articles, articles0, source, robots_cache, o_pc,
                   urls_to_crawl, o_batch, o_next, o_sleep_until, stats, etag_matched, unsaved>>

\* _crawl_single_url, lines 371-412, when the server may answer anything
fetch_url(u) == fetch_url_with(u, GetResponses)

\* crawl_source, line 151: every task of the batch has returned
gather_done ==
    /\ o_pc = "gather"
    /\ \A k \in batch(o_batch) : pc[urls_to_crawl[k]] = "done"
    /\ o_pc' = "aggregate"
    /\ o_next' = o_batch
    /\ UNCHANGED <<rl_vars, dup_vars, fp_vars, articles, articles0, source, robots_cache, urls_to_crawl,
                   o_batch, o_sleep_until, stats, semaphore, result, fetched, failed, etag_matched, unsaved>>

\* what the database does for _process_crawl_result: everything is stored;
\* the session raises before anything is committed; or the article is
\* committed (line 521) and register_content_hash raises
PersistenceOutcomes == {"stored", "session_fails", "register_fails"}

\* what _process_crawl_result returns: True when it created the article and
\* nothing raised; the except of lines 531-533 turns an exception into False
process_crawl_result(creates, outcome) == creates /\ outcome = "stored"

\* crawl_source, lines 153-171: the next result of the batch is counted, and
\* processed by _process_crawl_result when it is a success and no duplicate;
\* the database answers with one of outcomes
aggregate_result_with(outcomes) ==
    /\ o_pc = "aggregate"
    /\ o_next \in batch(o_batch)
    /\ \E outcome \in outcomes :
       LET res == result[urls_to_crawl[o_next]]
           processed == res.success /\ ~res.is_duplicate
           creates == processed /\ creates_article(res)
           written == processed /\ outcome # "session_fails"
           registers == creates /\ outcome = "stored"
       IN /\ outcome # "stored" => processed
          /\ outcome = "register_fails" => creates
          /\ stats' = aggregate(stats, res, process_crawl_result(creates, outcome))
          /\ articles' = IF written THEN articles_after(res) ELSE articles
          /\ content_hashes' = IF registers
                               THEN content_hashes_after_register(res.content_hash)
                               ELSE content_hashes
          /\ hash_cache' = IF registers /\ rows_of(res.content_hash) = {}
                           THEN hash_cache \cup {res.content_hash}
                           ELSE hash_cache
          /\ unsaved' = IF outcome = "stored" THEN unsaved
                        ELSE unsaved \cup {res.url}
    /\ o_next' = o_next + 1
    /\ UNCHANGED <<rl_vars, today, fp_vars, d_pc, d_hash, d_found, d_known, d_days, d_ret,
                   registered, d_live, articles0, source, robots_cache, o_pc, urls_to_crawl, o_batch,
                   o_sleep_until, semaphore, result, fetched, failed, etag_matched>>

\* crawl_source, lines 153-171, when the database may fail
aggregate_result == aggregate_result_with(PersistenceOutcomes)

\* crawl_source, line 174: await asyncio.sleep(1) begins
pause_begin ==
    /\ o_pc = "aggregate"
    /\ o_next \notin batch(o_batch)
    /\ o_sleep_until' = now + 1000
    /\ o_pc' = "pause"
    /\ UNCHANGED <<rl_vars, dup_vars, fp_vars, articles, articles0, source, robots_cache, urls_to_crawl,
                   o_batch, o_next, stats, semaphore, result, fetched, failed, etag_matched, unsaved>>

\* crawl_source, lines 149 and 174: the sleep ends, the loop goes on or ends
pause_end ==
    /\ o_pc = "pause"
    /\ now >= o_sleep_until
    /\ o_sleep_until' = 0
    /\ IF o_batch + batch_size <= Len(urls_to_crawl)
       THEN o_batch' = o_batch + batch_size /\ o_pc' = "batch"
       ELSE o_batch' = o_batch /\ o_pc' = "update_source_stats"
    /\ UNCHANGED <<rl_vars, dup_vars, fp_vars, articles, articles0, source, robots_cache, urls_to_crawl,
                   o_next, stats, semaphore, result, fetched, failed, etag_matched, unsaved>>

\* mutant of source_after_update: the values are computed from the row of
\* a source never crawled, as the run read it, and written over the row
source_after_update_overwritten(row, pages_failed, t) ==
    [row EXCEPT !.crawl_count = 1, !.error_count = pages_failed, !.last_crawled_at = t]

\* UPDATE sources SET last_crawled_at = NOW(), crawl_count = crawl_count + 1,
\* error_count = error_count + %s: one statement, on the row as it is
source_after_update(row, pages_failed, t) ==
    [row EXCEPT !.crawl_count = @ + 1, !.error_count = @ + pages_failed,
                !.last_crawled_at = t]

\* _update_source_stats, and the return of crawl_source
update_source_stats ==
    /\ o_pc = "update_source_stats"
    /\ source' = source_after_update(source, stats.pages_failed, now)
    /\ o_pc' = "done"
    /\ UNCHANGED <<rl_vars, dup_vars, fp_vars, articles, articles0, robots_cache, urls_to_crawl,
                   o_batch, o_next, o_sleep_until, stats, semaphore, result, fetched,
                   failed, etag_matched, unsaved>>

\* the tasks of the batch that asyncio.gather is waiting for
in_flight == {u \in Urls : pc[u] \in {"sem_wait", "admit", "sleeping", "probe", "fetch"}}

\* the task running crawl_source is cancelled while it awaits asyncio.gather
\* (line 151): gather cancels the tasks still running, each of which leaves
\* its async with blocks (the semaphore and the host's lock are released),
\* and CancelledError is raised at the await in crawl_source, where only
\* except Exception (line 179) could catch it
cancel_run ==
    /\ o_pc = "gather"
    /\ in_flight # {}
    /\ pc' = [u \in Urls |-> IF u \in in_flight THEN "cancelled" ELSE pc[u]]
    /\ semaphore' = semaphore
                      + Cardinality(in_flight \cap {u \in Urls : pc[u] # "sem_wait"})
    /\ domain_locks' = [h \in Hosts |->
                           IF domain_locks[h] \in in_flight THEN Free ELSE domain_locks[h]]
    /\ w_domain' = [u \in Urls |-> IF u \in in_flight THEN NoDomain ELSE w_domain[u]]
    /\ w_current_time' = [u \in Urls |-> IF u \in in_flight THEN 0 ELSE w_current_time[u]]
    /\ w_wait_time' = [u \in Urls |-> IF u \in in_flight THEN 0 ELSE w_wait_time[u]]
    /\ IF except_Exception("CancelledError")
       THEN /\ stats' = [stats EXCEPT !.errors = Append(@, "Erreur generale: ")]
            /\ o_pc' = "done"
       ELSE o_pc' = "raised" /\ UNCHANGED stats
    /\ UNCHANGED <<now, domain_limits, request_history, last_request, error_counts,
                   n_reports, n_requests, dup_vars, fp_vars, articles, articles0, source,
                   robots_cache, urls_to_crawl, o_batch, o_next, o_sleep_until, result,
                   fetched, failed, etag_matched, unsaved>>

\* another run of crawl_source for the same source, going on at the same
\* time, reaches its _update_source_stats with the pages_failed it counted
other_run_update ==
    /\ source.crawl_count < MaxRuns
    /\ \E pages_failed \in 0..1 :
          source' = source_after_update(source, pages_failed, now)
    /\ UNCHANGED <<rl_vars, dup_vars, fp_vars, articles, articles0, robots_cache, o_pc,
                   urls_to_crawl, o_batch, o_next, o_sleep_until, stats, semaphore,
                   result, fetched, failed, etag_matched, unsaved>>

\* crawl_source is called again on the same SmartCrawler once a run has
\* returned: the locals of the run start anew (lines 111-120), while the
\* tables, hash_cache, robots_cache and the rate limiter stay as they are
next_run ==
    /\ o_pc = "done"
    /\ source.crawl_count < MaxRuns
    /\ o_pc' = "start"
    /\ articles0' = articles
    /\ stats' = Stats0
    /\ urls_to_crawl' = <<>>
    /\ o_batch' = 0
    /\ o_next' = 0
    /\ semaphore' = 0
    /\ pc' = [u \in Urls |-> "-"]
    /\ result' = [u \in Urls |-> CrawlResult(u)]
    /\ fetched' = {}
    /\ failed' = {}
    /\ etag_matched' = {}
    /\ unsaved' = {}
    /\ UNCHANGED <<rl_rest, dup_vars, fp_vars, articles, source, robots_cache, o_sleep_until>>

\* the local stats of update_check_crawl when it begins
UpdateCheckStats0 == [pages_checked |-> 0, updates_found |-> 0, errors |-> <<>>]

\* SELECT url, etag, last_modified FROM articles ... ORDER BY crawled_at DESC
\* LIMIT: the positions of the rows, the latest first; the table is in the
\* order of crawled_at and every article was crawled in the last 7 days
recent_articles ==
    [k \in 1..Min(Len(articles), update_check_limit) |-> Len(articles) + 1 - k]

\* update_check_crawl, lines 602-618 and 631-634: the source is read and the
\* recent articles selected; an exception is noted in errors
update_check_begin ==
    /\ o_pc = "start"
    /\ \E lookup \in SourceLookups :
          IF lookup = "found"
          THEN /\ stats' = UpdateCheckStats0
               /\ urls_to_crawl' = [k \in DOMAIN recent_articles |->
                                       articles[recent_articles[k]].url]
               /\ o_next' = 1
               /\ o_pc' = "check"
          ELSE /\ stats' = [UpdateCheckStats0 EXCEPT !.errors = Append(@, str_of(lookup))]
               /\ o_pc' = "done"
               /\ UNCHANGED <<urls_to_crawl, o_next>>
    /\ UNCHANGED <<rl_vars, dup_vars, fp_vars, articles, articles0, source, robots_cache, o_batch,
                   o_sleep_until, semaphore, result, fetched, failed, etag_matched,
                   unsaved>>

\* update_check_crawl, lines 621-629: one article of the loop. The values
\* given to _check_content_freshness are the stored ones of the article; when
\* it answers True, _crawl_single_url probes the URL (HEAD), and sends the
\* GET unless the probe says unchanged; a success that is no duplicate is
\* processed and counted in updates_found
update_check_article(heads, gets) ==
    /\ o_pc = "check"
    /\ o_next <= Len(urls_to_crawl)
    /\ LET url == urls_to_crawl[o_next]
           row == articles0[CHOOSE i \in 1..Len(articles0) : articles0[i].url = url]
           checked == [stats EXCEPT !.pages_checked = @ + 1]
       IN IF ~check_content_freshness(url, row.etag, row.last_modified)
          THEN /\ stats' = checked
               /\ UNCHANGED <<articles, content_hashes, hash_cache, result, fetched, failed>>
          ELSE \E head \in heads[url], get \in gets[url] :
                  IF ~should_crawl_url(url, head)
                  THEN /\ stats' = checked
                       /\ result' = [result EXCEPT ![url] =
                              [CrawlResult(url) EXCEPT !.success = TRUE,
                                                       !.is_duplicate = TRUE]]
                       /\ UNCHANGED <<articles, content_hashes, hash_cache, fetched,
                                      failed>>
                  ELSE LET res == crawl_result(url, get)
                           processed == res.success /\ ~res.is_duplicate
                       IN /\ result' = [result EXCEPT ![url] = res]
                          /\ fetched' = fetched \cup {url}
                          /\ failed' = IF fetch_fails(get) THEN failed \cup {url}
                                       ELSE failed
                          /\ hash_cache' = IF get.content_hash # None
                                               /\ check_exact_duplicate(get.content_hash)
                                            THEN hash_cache \cup {get.content_hash}
                                            ELSE hash_cache
                          /\ articles' = IF processed THEN articles_after(res)
                                         ELSE articles
                          /\ stats' = IF processed
                                      THEN [checked EXCEPT !.updates_found = @ + 1]
                                      ELSE checked
                          /\ UNCHANGED content_hashes
    /\ o_next' = o_next + 1
    /\ UNCHANGED <<rl_vars, today, fp_vars, d_pc, d_hash, d_found, d_known, d_days, d_ret,
                   registered, d_live, articles0, source, robots_cache, o_pc,
                   urls_to_crawl, o_batch, o_sleep_until, semaphore, etag_matched,
                   unsaved>>

\* update_check_crawl, line 634: the loop is over, the statistics are returned
update_check_end ==
    /\ o_pc = "check"
    /\ o_next > Len(urls_to_crawl)
    /\ o_pc' = "done"
    /\ UNCHANGED <<rl_vars, dup_vars, fp_vars, articles, articles0, source, robots_cache,
                   urls_to_crawl, o_batch, o_next, o_sleep_until, stats, semaphore,
                   result, fetched, failed, etag_matched, unsaved>>

\* ---------------------------------------------------------- specifications

\* the state after RateLimiter.__init__, with the callers procs
InitRateLimiter(procs) ==
    /\ now = StartTime
    /\ domain_limits = [h \in Hosts |-> NoLimit]
    /\ request_history = [h \in Hosts |-> <<>>]
    /\ last_request = [h \in Hosts |-> 0]
    /\ domain_locks = [h \in Hosts |-> Free]
    /\ error_counts = [h \in Hosts |-> 0]
    /\ pc = [c \in procs |-> IF c \in Urls THEN "-" ELSE "idle"]
    /\ w_domain = [c \in procs |-> NoDomain]
    /\ w_current_time = [c \in procs |-> 0]
    /\ w_wait_time = [c \in procs |-> 0]
    /\ n_reports = 0
    /\ n_requests = 0

\* the state after AntiDuplicationEngine.initialize, with the rows of the table
InitEngine(rows) ==
    /\ today = 0
    /\ content_hashes = rows
    /\ hash_cache = {rows[i].content_hash : i \in 1..Len(rows)}
    /\ d_pc = [w \in Workers |-> "idle"]
    /\ d_hash = [w \in Workers |-> NoHash]
    /\ d_found = [w \in Workers |-> FALSE]
    /\ d_known = [w \in Workers |-> {}]
    /\ d_days = [w \in Workers |-> 0]
    /\ d_ret = [w \in Workers |-> "-"]
    /\ registered = {}
    /\ d_live = [w \in Workers |-> FALSE]

\* the state when crawl_source begins, with the rows of articles and the
\* source's respect_robots_txt
InitCrawler(rows, respect) ==
    /\ articles = rows
    /\ articles0 = rows
    /\ source = [respect_robots_txt |-> respect, crawl_count |-> 0, error_count |-> 0,
                 last_crawled_at |-> 0]
    /\ robots_cache = "-"
    /\ o_pc = "start"
    /\ urls_to_crawl = <<>>
    /\ o_batch = 0
    /\ o_next = 0
    /\ o_sleep_until = 0
    /\ stats = Stats0
    /\ semaphore = 0
    /\ result = [u \in Urls |-> CrawlResult(u)]
    /\ fetched = {}
    /\ failed = {}
    /\ etag_matched = {}
    /\ unsaved = {}

\* ---- the rate limiter, called by Callers
InitRL == InitRateLimiter(Callers) /\ InitEngine(<<>>) /\ NoHashing /\ InitCrawler(<<>>, TRUE)

WaitEnter ==
    /\ \E c \in Callers, h \in Hosts :
          /\ pc[c] = "idle"
          /\ n_requests < MaxRequests
          /\ wait_if_needed_enter(c, h, "idle")
    /\ UNCHANGED <<dup_vars, fp_vars, crawl_vars>>
WaitWake ==
    /\ \E c \in Callers : wait_if_needed_wake(c, "idle")
    /\ UNCHANGED <<dup_vars, fp_vars, crawl_vars>>
HandleResponse ==
    /\ n_reports < MaxReports
    /\ \E h \in Hosts, s \in StatusCodes, rt \in ResponseTimes : handle_response(h, s, rt)
    /\ UNCHANGED <<dup_vars, fp_vars, crawl_vars>>
ResetDomainLimits ==
    /\ n_reports < MaxReports
    /\ \E h \in Hosts : reset_domain_limits(h)
    /\ UNCHANGED <<dup_vars, fp_vars, crawl_vars>>
ConfigureDomain ==
    /\ n_reports < MaxReports
    /\ \E h \in Hosts, l \in politeness_rules : configure_domain(h, l)
    /\ UNCHANGED <<dup_vars, fp_vars, crawl_vars>>
TickRL ==
    /\ Tick(TickStep, MaxTime)
    /\ UNCHANGED <<dup_vars, fp_vars, crawl_vars>>

NextRL == WaitEnter \/ WaitWake \/ HandleResponse \/ ResetDomainLimits
          \/ ConfigureDomain \/ TickRL

SpecRL == InitRL /\ [][NextRL]_vars

\* ---- the rate limiter given reports alone, for one host
InitAdapt == InitRateLimiter(Callers) /\ InitEngine(<<>>) /\ NoHashing /\ InitCrawler(<<>>, TRUE)

AdaptHandleResponse ==
    /\ n_reports < MaxAdaptReports
    /\ \E s \in StatusCodes, rt \in ResponseTimes : handle_response("h1", s, rt)
    /\ UNCHANGED <<dup_vars, fp_vars, crawl_vars>>
AdaptResetDomainLimits ==
    /\ n_reports < MaxAdaptReports
    /\ reset_domain_limits("h1")
    /\ UNCHANGED <<dup_vars, fp_vars, crawl_vars>>
AdaptConfigureDomain ==
    /\ n_reports < MaxAdaptReports
    /\ \E l \in politeness_rules : configure_domain("h1", l)
    /\ UNCHANGED <<dup_vars, fp_vars, crawl_vars>>

NextAdapt == AdaptHandleResponse \/ AdaptResetDomainLimits \/ AdaptConfigureDomain

SpecAdapt == InitAdapt /\ [][NextAdapt]_vars

\* ---- the anti-duplication engine, called by Workers
InitDup == InitRateLimiter(Callers) /\ InitEngine(<<>>) /\ NoHashing /\ InitCrawler(<<>>, TRUE)

IsDuplicateBegin ==
    /\ \E w \in Workers, f \in Hashes : is_duplicate_begin(w, f)
    /\ UNCHANGED <<rl_vars, crawl_vars>>
IsDuplicateSelect ==
    /\ \E w \in Workers : is_duplicate_select(w)
    /\ UNCHANGED <<rl_vars, crawl_vars>>
IsDuplicateEnd ==
    /\ \E w \in Workers, similar \in BOOLEAN : is_duplicate_end(w, similar)
    /\ UNCHANGED <<rl_vars, crawl_vars>>
Return ==
    /\ \E w \in Workers : d_return(w)
    /\ UNCHANGED <<rl_vars, crawl_vars>>
RegisterSelect ==
    /\ \E w \in Workers, f \in Hashes : register_select(w, f)
    /\ UNCHANGED <<rl_vars, crawl_vars>>
RegisterWrite ==
    /\ \E w \in Workers : register_write(w)
    /\ UNCHANGED <<rl_vars, crawl_vars>>
RegisterEnd ==
    /\ \E w \in Workers : register_end(w)
    /\ UNCHANGED <<rl_vars, crawl_vars>>
CleanupDelete ==
    /\ \E w \in Workers, days \in DaysToKeep : cleanup_delete(w, days)
    /\ UNCHANGED <<rl_vars, crawl_vars>>
LoadKnownHashes ==
    /\ \E w \in Workers : load_known_hashes_select(w)
    /\ UNCHANGED <<rl_vars, crawl_vars>>
CleanupEnd ==
    /\ \E w \in Workers : cleanup_end(w)
    /\ UNCHANGED <<rl_vars, crawl_vars>>
TickDay ==
    /\ DayTick
    /\ UNCHANGED <<rl_vars, crawl_vars>>

NextDup == IsDuplicateBegin \/ IsDuplicateSelect \/ IsDuplicateEnd \/ Return
           \/ RegisterSelect \/ RegisterWrite \/ RegisterEnd
           \/ CleanupDelete \/ LoadKnownHashes \/ CleanupEnd \/ TickDay

SpecDup == InitDup /\ [][NextDup]_vars

\* ---- one run of crawl_source
\* the tables when the run begins: empty, or holding the article of "u1" with
\* the row of its content hash
InitCrawl ==
    /\ InitRateLimiter(Urls)
    /\ \E stored, respect \in BOOLEAN :
          IF stored
          THEN /\ InitEngine(<<ContentHash("f1", 0)>>)
               /\ NoHashing /\ InitCrawler(<<Article("u1", "f1", "e1", "m1")>>, respect)
          ELSE InitEngine(<<>>) /\ NoHashing /\ InitCrawler(<<>>, respect)

GetSource == get_source
CheckRobotsTxt == check_robots_txt
DiscoverUrls == discover_urls
GatherBatch == gather_batch
SemaphoreAcquire == \E u \in Urls : semaphore_acquire(u)
Admit == \E u \in Urls : admit(u)
AdmitWake == \E u \in Urls : admit_wake(u)
ProbeUrl == \E u \in Urls : probe_url(u)
FetchUrl == \E u \in Urls : fetch_url(u)
GatherDone == gather_done
AggregateResult == aggregate_result
PauseBegin == pause_begin
PauseEnd == pause_end
UpdateSourceStats == update_source_stats
TickCrawl ==
    /\ Tick(CrawlTickStep, CrawlMaxTime)
    /\ UNCHANGED <<dup_vars, fp_vars, crawl_vars>>

NextCrawl == GetSource \/ CheckRobotsTxt \/ DiscoverUrls \/ GatherBatch \/ SemaphoreAcquire \/ Admit \/ AdmitWake
             \/ ProbeUrl \/ FetchUrl \/ GatherDone \/ AggregateResult \/ PauseBegin
             \/ PauseEnd \/ UpdateSourceStats \/ TickCrawl

SpecCrawl == InitCrawl /\ [][NextCrawl]_vars

\* ---- consecutive runs of crawl_source on a site that does not change
\* the ETag and the content hash of each page of the site
page_etag(u) == IF u = "u1" THEN "e1" ELSE "e2"
page_hash(u) == IF u = "u1" THEN "f1" ELSE "f2"

\* the answer of the site to a HEAD request and to a GET request
page_head(u) == [status |-> 200, etag |-> page_etag(u), last_modified |-> None]
page_get(u) == [kind |-> "response", status |-> 200, content_hash |-> page_hash(u)]

\* the tables are empty before the first run, and the database does not fail
InitRecrawl ==
    /\ InitRateLimiter(Urls)
    /\ \E respect \in BOOLEAN : InitEngine(<<>>) /\ NoHashing /\ InitCrawler(<<>>, respect)

RecrawlGetSource == get_source
RecrawlCheckRobotsTxt == check_robots_txt
RecrawlDiscoverUrls == discover_urls_in({<<"u1", "u2">>})
RecrawlProbeUrl == \E u \in Urls : probe_url_with(u, {page_head(u)})
RecrawlFetchUrl == \E u \in Urls : fetch_url_with(u, {page_get(u)})
RecrawlAggregateResult == aggregate_result_with({"stored"})
NextRun == next_run
TickRecrawl ==
    /\ Tick(CrawlTickStep, RecrawlMaxTime)
    /\ UNCHANGED <<dup_vars, fp_vars, crawl_vars>>

NextRecrawl == RecrawlGetSource \/ RecrawlCheckRobotsTxt \/ RecrawlDiscoverUrls
               \/ GatherBatch \/ SemaphoreAcquire \/ Admit \/ AdmitWake
               \/ RecrawlProbeUrl \/ RecrawlFetchUrl \/ GatherDone \/ RecrawlAggregateResult
               \/ PauseBegin \/ PauseEnd \/ UpdateSourceStats \/ NextRun \/ TickRecrawl

SpecRecrawl == InitRecrawl /\ [][NextRecrawl]_vars

\* ---- a run of crawl_source while other runs of the source end
\* the GET of a page of the site is answered, or times out
BookFetchUrl ==
    \E u \in Urls :
        fetch_url_with(u, {page_get(u), [kind |-> "timeout", status |-> 0,
                                         content_hash |-> None]})
OtherRunUpdate == other_run_update

NextBook == RecrawlGetSource \/ RecrawlCheckRobotsTxt \/ RecrawlDiscoverUrls
            \/ GatherBatch \/ SemaphoreAcquire \/ Admit \/ AdmitWake
            \/ RecrawlProbeUrl \/ BookFetchUrl \/ GatherDone \/ RecrawlAggregateResult
            \/ PauseBegin \/ PauseEnd \/ UpdateSourceStats \/ OtherRunUpdate
            \/ TickCrawl

SpecBook == InitRecrawl /\ [][NextBook]_vars

\* ---- a run of crawl_source that may be cancelled
CancelRun == cancel_run

NextCancel == RecrawlGetSource \/ RecrawlCheckRobotsTxt \/ RecrawlDiscoverUrls
              \/ GatherBatch \/ SemaphoreAcquire \/ Admit \/ AdmitWake
              \/ RecrawlProbeUrl \/ BookFetchUrl \/ GatherDone \/ RecrawlAggregateResult
              \/ PauseBegin \/ PauseEnd \/ UpdateSourceStats \/ CancelRun \/ TickCrawl

SpecCancel == InitRecrawl /\ [][NextCancel]_vars

\* ---- update_check_crawl on a source with stored articles
\* the ETags an article may be stored with
StoredEtags == {None, "e1", "e2"}

\* the tables articles may be: up to three articles of different URLs, each
\* with the content hash "f1" and one of StoredEtags
StoredArticles ==
    {rows \in UNION {[1..n -> {Article(u, "f1", e, None) : u \in Urls, e \in StoredEtags}] :
                        n \in 0..Cardinality(Urls)} :
        \A i, j \in DOMAIN rows : rows[i].url = rows[j].url => i = j}

InitUpdateCheck ==
    /\ InitRateLimiter(Urls)
    /\ InitEngine(<<ContentHash("f1", 0)>>)
    /\ \E rows \in StoredArticles : NoHashing /\ InitCrawler(rows, TRUE)

\* the HEAD of a page of the site is answered; its GET is answered or times out
site_heads == [u \in Urls |-> {page_head(u)}]
site_gets ==
    [u \in Urls |-> {page_get(u), [kind |-> "timeout", status |-> 0, content_hash |-> None]}]

UpdateCheckBegin == update_check_begin
UpdateCheckArticle == update_check_article(site_heads, site_gets)
UpdateCheckEnd == update_check_end

NextUpdateCheck == UpdateCheckBegin \/ UpdateCheckArticle \/ UpdateCheckEnd

SpecUpdateCheck == InitUpdateCheck /\ [][NextUpdateCheck]_vars

\* ---- the fingerprints of two contents
InitHash ==
    /\ InitRateLimiter(Callers)
    /\ InitEngine(<<>>)
    /\ InitCrawler(<<>>, TRUE)
    /\ h_content \in Contents \X Contents
    /\ h_hash = <<>>

HashContents == hash_contents

NextHash == HashContents

SpecHash == InitHash /\ [][NextHash]_vars

\* ------------------------------------------------------- RateLimiter: claims

\* the callers that are between computing their wait and recording their
\* request for a host, asleep in asyncio.sleep
inside(h) == {c \in DOMAIN pc : pc[c] = "sleeping" /\ w_domain[c] = h}

\* the requests of a history in the second that ends with (and holds) time t
in_trailing_second(history, t) ==
    Cardinality({i \in 1..Len(history) : t - history[i] < 1000})

\* C1: whenever a request is recorded for a host, the requests recorded for
\* that host in the 1-second window ending with it do not exceed the host's
\* allowed rate (requests_per_second); a window holding that request alone is
\* never counted as exceeding a rate below 1
C1_RateCeiling ==
    [][\A h \in Hosts :
          (last_request'[h] # last_request[h] /\ last_request'[h] # 0) =>
              LET n == in_trailing_second(request_history'[h], last_request'[h])
              IN n > 1 => n * 1000 <= limit_of(h).requests_per_second]_vars

\* C7: for every host at most one caller is inside wait_if_needed between
\* computing its wait and recording its request, and no handle_response for
\* the host runs while a caller is inside
C7_HostCriticalSection ==
    /\ [](\A h \in Hosts : Cardinality(inside(h)) <= 1)
    /\ [][\A h \in Hosts :
             (\E s \in StatusCodes, rt \in ResponseTimes : handle_response(h, s, rt))
                 => inside(h) = {}]_vars

\* C7 witness: a caller sleeps inside a host's section that a second caller
\* has been admitted to before, after a 429 lowered the host's limits
C7_Witness ==
    \E h \in Hosts :
        /\ inside(h) # {}
        /\ Len(request_history[h]) >= 1
        /\ domain_limits[h] # NoLimit
        /\ error_counts[h] >= 1

\* --------------------------------------------- AntiDuplicationEngine: claims

\* C2: an is_duplicate call for a hash that was registered with success
\* before the call began, and whose record no cleanup has deleted since,
\* returns True; and a record leaves content_hashes only in the DELETE of a
\* cleanup_old_hashes, older than its days_to_keep and with duplicate_count 0
C2_DuplicateMonotonicity ==
    /\ [](\A w \in Workers : (d_pc[w] = "returned" /\ d_live[w]) => d_ret[w] = "True")
    /\ [][\A f \in Hashes :
             (f \in stored_hashes /\ f \notin stored_hashes') =>
                 \E w \in Workers :
                     /\ d_pc[w] = "idle"
                     /\ d_pc'[w] = "cl_deleted"
                     /\ \A i \in rows_of(f) :
                            /\ content_hashes[i].first_seen_at < today - d_days'[w]
                            /\ content_hashes[i].duplicate_count = 0]_vars

\* C2 witness: is_duplicate returned True for a registered hash whose record
\* is older than the 30 days of the cache, after a cleanup deleted another record
C2_Witness ==
    \E w \in Workers :
        /\ d_pc[w] = "returned"
        /\ d_live[w]
        /\ d_ret[w] = "True"
        /\ \E i \in rows_of(d_hash[w]) : content_hashes[i].first_seen_at < today - 30
        /\ Len(content_hashes) = 1

\* C6: no two records of content_hashes hold the same hash, and no
\* register_content_hash ends in an error: the call that loses a race returns
\* False
C6_RegistrationIdempotent ==
    /\ \A f \in Hashes : Cardinality(rows_of(f)) <= 1
    /\ \A w \in Workers : d_pc[w] = "returned" => d_ret[w] # "IntegrityError"

\* ------------------------------------------------------ SmartCrawler: claims

\* the tasks that hold the semaphore
past_semaphore == {u \in Urls : pc[u] \in {"admit", "sleeping", "probe", "fetch"}}

\* the rows of articles created since the run began, with a content hash
created_with(f) ==
    {i \in (Len(articles0) + 1)..Len(articles) : articles[i].content_hash = f}

\* the notes crawl_source leaves in errors when it returns before any URL
GateNotes ==
    {"Erreur generale: Source non trouvee", "Erreur generale: OperationalError",
     "Bloque par robots.txt"}

\* crawl_source has returned at the source lookup or at the robots.txt gate
ended_at_gate ==
    /\ o_pc = "done"
    /\ Len(stats.errors) > 0
    /\ stats.errors[1] \in GateNotes

\* C3: when crawl_source returns from a run that went past the source lookup
\* and the robots.txt gate, every URL of the run has been through its
\* task and been counted, pages_failed is the number of URLs whose fetch
\* failed, and errors holds each of them once
C3_PartialFailureResilience ==
    (o_pc = "done" /\ ~ended_at_gate) =>
        /\ \A k \in 1..Len(urls_to_crawl) : pc[urls_to_crawl[k]] = "done"
        /\ stats.pages_crawled = Len(urls_to_crawl)
        /\ stats.pages_failed = Cardinality(failed)
        /\ Len(stats.errors) = Cardinality(failed)
        /\ {stats.errors[i] : i \in 1..Len(stats.errors)} = failed

\* C3 witness: a run of three URLs returned, one or two of them failed and
\* another one gave a new article
C3_Witness ==
    /\ o_pc = "done"
    /\ Len(urls_to_crawl) = 3
    /\ failed # {}
    /\ stats.pages_failed < 3
    /\ stats.new_articles >= 1

\* C4: when crawl_source returns, at most one article has been created in the
\* run for each content hash, and new_articles counts at most one URL for
\* each content hash
C4_DuplicateFreeStorage ==
    o_pc = "done" =>
        /\ \A f \in Hashes : Cardinality(created_with(f)) <= 1
        /\ stats.new_articles <= Cardinality({f \in Hashes : created_with(f) # {}})

\* C5: the tasks past the semaphore are never more than
\* min(10, crawler_max_workers), in every batch of the run
C5_GlobalConcurrencyCap ==
    Cardinality(past_semaphore) <= Min(10, crawler_max_workers)

\* C5 witness: as many tasks as the cap allows hold the semaphore and another
\* task of the batch waits for it
C5_Witness ==
    /\ Cardinality(past_semaphore) = Min(10, crawler_max_workers)
    /\ \E u \in Urls : pc[u] = "sem_wait"

C9_ResponsesReported ==
    o_pc = "done" =>
        \A u \in Urls :
            result[u].status_code = 429 =>
                \E h \in Hosts : domain_limits[h] # NoLimit \/ error_counts[h] > 0

\* C10: for every host, the URLs of that host that have been sent a request
\* are not more than the admissions recorded for that host
C10_AdmissionForOwnHost ==
    \A h \in Hosts :
        Cardinality({u \in Urls : url_host[u] = h /\ pc[u] \in {"probe", "fetch", "done"}})
            <= Len(request_history[h])

\* --------------------------------------------- RateLimiter: claims, reports

\* C11: a handle_response with status 429 stores for the host the rate
\* max(rate / 2, 0.1), the burst max(burst - 1, 1) and the delay
\* min(2 * delay, 10); the new rate is at most half the old one, or the floor 0.1
C11_RateLimitExceeded ==
    [][(\E rt \in ResponseTimes : handle_response("h1", 429, rt)) =>
          LET old == limit_of("h1")
              new == domain_limits'["h1"][1]
          IN /\ domain_limits'["h1"] # NoLimit
             /\ new.requests_per_second = Max(old.requests_per_second \div 2, 100)
             /\ new.burst_size = Max(old.burst_size - 1, 1)
             /\ new.delay_between_requests = Min(2 * old.delay_between_requests, 10000)
             /\ (2 * new.requests_per_second <= old.requests_per_second
                    \/ new.requests_per_second = 100)]_vars

\* C11 witness: after four reports of 429 the host is at the floor of the
\* rate and of the burst, and at the cap of the delay
C11_Witness ==
    /\ error_counts["h1"] = 4
    /\ domain_limits["h1"] = <<RateLimit(100, 1, 10000)>>

\* the wait _calculate_wait_time gives for a host now, with its limit of now
wait_now(h) == calculate_wait_time(h, now, limit_of(h))

\* C12: the wait computed for a host right after a handle_response with
\* status 429 is strictly greater than the one computed right before it
C12_AdaptiveBackoff ==
    [][\A h \in Hosts :
          (\E rt \in ResponseTimes : handle_response(h, 429, rt)) =>
              wait_now(h)' > wait_now(h)]_vars

\* C12 amended: it is so when the last request of the host is less than its
\* minimum delay ago and that delay is under 10 s
C12_BackoffWithinDelay ==
    [][\A h \in Hosts :
          (/\ \E rt \in ResponseTimes : handle_response(h, 429, rt)
           /\ now - last_request[h] < limit_of(h).delay_between_requests
           /\ limit_of(h).delay_between_requests < 10000) =>
              wait_now(h)' > wait_now(h)]_vars

\* C12 witness: a 429 was reported for a host with one request, and a caller
\* that came at the instant of that request sleeps for the doubled delay
C12_Witness ==
    \E h \in Hosts, c \in Callers :
        /\ error_counts[h] = 1
        /\ domain_limits[h] = <<RateLimit(500, 2, 2000)>>
        /\ Len(request_history[h]) = 1
        /\ pc[c] = "sleeping"
        /\ w_domain[c] = h
        /\ w_current_time[c] = last_request[h]
        /\ w_wait_time[c] = 2000

\* the allowed rate of a host
rate_of(h) == limit_of(h).requests_per_second

\* C13, for the steps of handle_response: a handle_response does not raise the
\* rate of a host above 2 req/s, lowers it only for status 429 or 5xx, and
\* raises it only for status 200 answered in under 1 s with no error left
C13_ThrottleInvariant ==
    /\ [](\A h \in Hosts : rate_of(h) <= 2000)
    /\ [][\A h \in Hosts, s \in StatusCodes, rt \in ResponseTimes :
             handle_response(h, s, rt) =>
                 /\ rate_of(h)' < rate_of(h) => (s = 429 \/ s >= 500)
                 /\ rate_of(h)' > rate_of(h) =>
                        (s = 200 /\ rt < 1000 /\ error_counts'[h] = 0)]_vars

\* the requests of a history in the 10 s that end at t
in_trailing_burst_window(history, t) ==
    Cardinality({i \in 1..Len(history) : t - history[i] < 10000})

\* C14: when a request is admitted for a host, at once or after a sleep, the
\* requests recorded for it in the 10 s that end with it, itself included, are
\* not more than the burst_size the host has at the admission
C14_BurstCap ==
    [][\A h \in Hosts :
          /\ (inside(h) = {} /\ last_request'[h] # last_request[h] /\ last_request'[h] # 0)
                => in_trailing_burst_window(request_history'[h], last_request'[h])
                       <= limit_of(h).burst_size
          /\ \A c \in DOMAIN pc :
                (pc[c] # "sleeping" /\ pc'[c] = "sleeping" /\ w_domain'[c] = h)
                    => in_trailing_burst_window(request_history'[h],
                                                w_current_time'[c] + w_wait_time'[c]) + 1
                           <= limit_of(h).burst_size]_vars

\* C15: a request admitted for a host is recorded at least the
\* delay_between_requests of the admission after the request recorded before
\* it, whether it is recorded at once or after a sleep; while a caller sleeps
\* no other request is recorded for the host, and the sleeper records the
\* time it was admitted for
C15_MinimumSpacing ==
    [][\A h \in Hosts :
          /\ (/\ inside(h) = {}
              /\ last_request[h] # 0
              /\ last_request'[h] # last_request[h]
              /\ last_request'[h] # 0)
                => last_request'[h] - last_request[h]
                       >= limit_of(h).delay_between_requests
          /\ \A c \in DOMAIN pc :
                (/\ pc[c] # "sleeping"
                 /\ pc'[c] = "sleeping"
                 /\ w_domain'[c] = h
                 /\ last_request[h] # 0)
                    => w_current_time'[c] + w_wait_time'[c] - last_request[h]
                           >= limit_of(h).delay_between_requests
          /\ \A c \in inside(h) :
                last_request'[h] = IF pc'[c] = "sleeping" THEN last_request[h]
                                   ELSE w_current_time[c] + w_wait_time[c]]_vars

\* C15 witness: with the delay 0.7 s, the second request of a host was
\* recorded 0.7 s after the first
C15_Witness ==
    \E h \in Hosts :
        /\ domain_limits[h] = <<RateLimit(1500, 5, 700)>>
        /\ Len(request_history[h]) = 2
        /\ request_history[h][2] - request_history[h][1] = 700

\* --------------------------------------- AntiDuplicationEngine: claims, cleanup

\* a row of content_hashes is still in the table after the step
row_kept(row) == \E j \in 1..Len(content_hashes') : content_hashes'[j] = row

\* C16: the DELETE of a cleanup_old_hashes keeps every record with a
\* duplicate_count above 0 and every record not older than its days_to_keep,
\* and no other step of a cleanup removes a record; when cleanup_old_hashes
\* returns, the cache is the set of hashes its _load_known_hashes selected
\* from the table, the records of the last 30 days
C16_CleanupKeeps ==
    [][\A w \in Workers :
          /\ (d_pc[w] = "idle" /\ d_pc'[w] = "cl_deleted") =>
                 \A i \in 1..Len(content_hashes) :
                     (\/ content_hashes[i].duplicate_count > 0
                      \/ content_hashes[i].first_seen_at >= today - d_days'[w])
                         => row_kept(content_hashes[i])
          /\ (d_pc[w] = "cl_deleted" /\ d_pc'[w] = "cl_loaded") =>
                 /\ content_hashes' = content_hashes
                 /\ d_known'[w] = {f \in stored_hashes :
                                      \E i \in rows_of(f) :
                                          content_hashes[i].first_seen_at > today - 30}
          /\ (d_pc[w] = "cl_loaded" /\ d_pc'[w] = "idle") =>
                 /\ content_hashes' = content_hashes
                 /\ hash_cache' = d_known[w]]_vars

\* C16 witness: the DELETE of a cleanup with 90 days has removed a record,
\* whose hash the cache still holds, and kept an older record that has been
\* seen as a duplicate
C16_Witness ==
    \E w \in Workers :
        /\ d_pc[w] = "cl_deleted"
        /\ d_days[w] = 90
        /\ hash_cache \ stored_hashes # {}
        /\ \E i \in 1..Len(content_hashes) :
               /\ content_hashes[i].duplicate_count > 0
               /\ content_hashes[i].first_seen_at < today - 90

\* the run has counted no page
no_page_counted ==
    /\ stats.pages_crawled = 0
    /\ stats.pages_processed = 0
    /\ stats.pages_failed = 0
    /\ stats.new_articles = 0
    /\ stats.updated_articles = 0
    /\ stats.duplicates_found = 0

\* the run has attempted no page: no URL is listed, no task has started, no
\* HEAD has been matched, no GET sent, and no article created or changed
no_page_attempted ==
    /\ urls_to_crawl = <<>>
    /\ \A u \in Urls : pc[u] = "-"
    /\ fetched = {}
    /\ failed = {}
    /\ etag_matched = {}
    /\ unsaved = {}
    /\ articles = articles0

\* C17: once robots.txt has been consulted for a source that respects it and
\* disallows the source URL, the run has returned having attempted no page,
\* with every page counter at zero and exactly one error, the robots.txt note
C17_PolicyGate ==
    (source.respect_robots_txt /\ robots_cache = "disallow" /\ o_pc \notin {"start", "robots"}) =>
        /\ o_pc = "done"
        /\ no_page_attempted
        /\ no_page_counted
        /\ stats.errors = <<"Bloque par robots.txt">>

\* C17 witness: a run of a source that respects robots.txt has returned after
\* the parser disallowed its URL
C17_Witness ==
    /\ o_pc = "done"
    /\ source.respect_robots_txt
    /\ robots_cache = "disallow"
    /\ Len(stats.errors) = 1

\* the notes of the two cases named as hard failures
HardFailureNotes == {"Erreur generale: Source non trouvee", "Bloque par robots.txt"}

\* C18: a source that is not found and a run blocked by robots.txt are
\* thrown to the caller, never returned as statistics, and nothing else is
\* thrown: an exception leaves crawl_source only before any page is attempted
C18_HardFailuresThrown ==
    /\ \A i \in 1..Len(stats.errors) : stats.errors[i] \notin HardFailureNotes
    /\ o_pc = "raised" => (stats.errors = <<>> /\ no_page_attempted)

\* C18, amended: no exception leaves crawl_source; a run that ends at the
\* source lookup or at the robots.txt gate returns statistics with that one
\* note in errors, no page attempted and every page counter at zero
C18_FailuresAbsorbed ==
    /\ o_pc # "raised"
    /\ (Len(stats.errors) > 0 /\ stats.errors[1] \in GateNotes) =>
          /\ o_pc = "done"
          /\ Len(stats.errors) = 1
          /\ no_page_attempted
          /\ no_page_counted

\* C18 witness: the run of a source that is not found has returned
C18_Witness ==
    /\ o_pc = "done"
    /\ stats.errors = <<"Erreur generale: Source non trouvee">>

\* the URLs of the run
run_urls == {urls_to_crawl[k] : k \in 1..Len(urls_to_crawl)}

\* the URLs of the run whose task returned a success
succeeded == {u \in run_urls : result[u].success}

\* the content hashes registered when the run began: InitCrawl stores the
\* row of a content hash with the article that has it
registered_at_start == {articles0[i].content_hash : i \in 1..Len(articles0)}

\* the content hashes the run extracted that were not registered when it began
new_content_hashes ==
    {result[u].content_hash : u \in {v \in succeeded : result[v].content_hash # None}}
        \ registered_at_start

\* C19: when crawl_source returns from a run over N URLs, pages_crawled is N,
\* pages_failed the number of URLs that failed, new_articles the number of
\* genuinely new contents, and duplicates_found the number of the other
\* successful URLs, whose content was registered already or was unchanged
C19_RunAccounting ==
    (o_pc = "done" /\ ~ended_at_gate) =>
        /\ stats.pages_crawled = Len(urls_to_crawl)
        /\ stats.pages_failed = Cardinality(run_urls \ succeeded)
        /\ stats.new_articles = Cardinality(new_content_hashes)
        /\ stats.duplicates_found =
               Cardinality(succeeded) - Cardinality(new_content_hashes)

\* the URL had an article when the run began
known_at_start(u) == \E i \in 1..Len(articles0) : articles0[i].url = u

\* C20: in a run that follows a run of the same source, whose pages have not
\* changed and answer the probe with the ETag they had, no GET is sent for a
\* page that had its article, and the run returns with zero new and zero
\* updated articles
C20_UnchangedPageSkipped ==
    /\ \A u \in fetched : ~known_at_start(u)
    /\ (o_pc = "done" /\ articles0 # <<>>) =>
          (stats.new_articles = 0 /\ stats.updated_articles = 0)

\* the result that aggregate_result counts next
next_result == result[urls_to_crawl[o_next]]

\* the step counts next_result (crawl_source, lines 153-171)
counts_next_result ==
    /\ o_pc = "aggregate"
    /\ o_next \in batch(o_batch)
    /\ o_next' = o_next + 1

\* next_result is a success, no duplicate, and its URL has an article with
\* another content hash
changed_content ==
    /\ next_result.success
    /\ ~next_result.is_duplicate
    /\ \E i \in article_rows(next_result.url) :
          articles[i].content_hash # next_result.content_hash

\* C21: when the result counted is new content for a URL that has an article,
\* and storing it does not fail, the article is updated in place and no
\* article added, updated_articles is incremented and new_articles is not
C21_UpdatePath ==
    [][(counts_next_result /\ changed_content /\ next_result.url \notin unsaved') =>
          /\ Len(articles') = Len(articles)
          /\ \A i \in article_rows(next_result.url) :
                articles'[i].content_hash = next_result.content_hash
          /\ stats'.updated_articles = stats.updated_articles + 1
          /\ stats'.new_articles = stats.new_articles]_vars

\* the rows of articles the run created or changed, with no failure of the
\* database for their URL
created_or_updated ==
    {i \in 1..Len(articles) : /\ i > Len(articles0) \/ articles[i] # articles0[i]
                              /\ articles[i].url \notin unsaved}

\* C22: when crawl_source returns, the content hash of every article the run
\* created or updated (the database not failing) has its record in
\* content_hashes, and is_duplicate answers true for it
C22_NewContentRecorded ==
    o_pc = "done" =>
        \A i \in created_or_updated :
            /\ rows_of(articles[i].content_hash) # {}
            /\ is_duplicate(articles[i].content_hash)

\* C23: when _process_crawl_result fails to store the result counted, the
\* failure is recorded for its URL (one more entry in errors, pages_failed
\* incremented) and the aggregation goes on with the next result
C23_PersistenceFailureRecorded ==
    [][(counts_next_result /\ next_result.url \in unsaved' \ unsaved) =>
          /\ stats'.pages_failed = stats.pages_failed + 1
          /\ Len(stats'.errors) = Len(stats.errors) + 1
          /\ o_pc' = "aggregate"]_vars

\* a step that runs the UPDATE of _update_source_stats: of the run, with its
\* pages_failed, or of another run
updates_source(pages_failed) ==
    \/ o_pc = "update_source_stats" /\ o_pc' = "done" /\ pages_failed = stats.pages_failed
    \/ source' # source /\ o_pc' = o_pc

C25_RunCancellation ==
    [][(o_pc = "gather" /\ in_flight # {} /\ o_pc' \notin {"gather", "aggregate"}) =>
          /\ in_flight' = {}
          /\ o_pc' = "done"
          /\ stats'.pages_crawled = stats.pages_crawled
          /\ stats'.new_articles = stats.new_articles
          /\ stats'.pages_failed = stats.pages_failed]_vars

\* the article the URL had when update_check_crawl began
stored_article(u) == articles0[CHOOSE i \in 1..Len(articles0) : articles0[i].url = u]

\* the metadata a probe of the URL gets differs from the stored values
metadata_changed(u) ==
    LET head == page_head(u)
        stored == stored_article(u)
    IN ~ \/ head.etag # None /\ stored.etag = head.etag
         \/ head.last_modified # None /\ stored.last_modified = head.last_modified

\* C26: update_check_crawl checks at most update_check_limit articles, the
\* latest, and when it returns the GET has been sent exactly for the checked
\* URLs whose probed metadata differs from the stored values, hence
\* updates_found <= pages_checked <= update_check_limit
C26_UpdateCheck ==
    (o_pc = "done" /\ "pages_checked" \in DOMAIN stats /\ stats.errors = <<>>) =>
        /\ stats.pages_checked = Len(urls_to_crawl)
        /\ stats.pages_checked <= update_check_limit
        /\ stats.updates_found <= stats.pages_checked
        /\ \A k \in 1..Len(urls_to_crawl) :
              urls_to_crawl[k] = articles0[Len(articles0) + 1 - k].url
        /\ \A k \in 1..Len(urls_to_crawl) :
              urls_to_crawl[k] \in fetched <=> metadata_changed(urls_to_crawl[k])

\* the punctuation marks of a content are removed
strip_punctuation(str) == SelectSeq(str, LAMBDA ch : ch # ".")

\* the content with its case, its punctuation and the amount of its
\* whitespace taken away: two contents that differ only in these have the
\* same one
without_formatting(content) ==
    collapse_whitespace(strip(strip_punctuation(lower(content))))

\* C27: two contents that differ only in whitespace, punctuation or letter
\* case get the same content hash
C27_IdempotentFingerprint ==
    (h_hash # <<>> /\ without_formatting(h_content[1]) = without_formatting(h_content[2])) =>
        h_hash[1] = h_hash[2]

\* the wait the minimum delay of a host demands now
delay_wait(h) ==
    IF delay_branch(h, now, limit_of(h))
    THEN limit_of(h).delay_between_requests - (now - last_request[h])
    ELSE 0

\* the wait the requests of the trailing second demand now
rate_wait(h) ==
    LET history == clean_history(request_history[h], now)
        oldest == oldest_in_window(history, now)
    IN IF count_within(history, now, 1000) * 1000 >= limit_of(h).requests_per_second
          /\ oldest # 0
       THEN 1000 - (now - oldest)
       ELSE 0

\* the wait the requests of the trailing 10 seconds demand now
burst_wait(h) ==
    LET history == clean_history(request_history[h], now)
    IN IF Len(history) >= limit_of(h).burst_size
          /\ count_within(history, now, 10000) >= limit_of(h).burst_size
       THEN 10000 \div limit_of(h).burst_size
       ELSE 0

\* C28: for every host, the wait _calculate_wait_time computes is the largest
\* of the waits the minimum delay, the rate and the burst demand
C28_LongestWaitBinds ==
    \A h \in Hosts : wait_now(h) = Max(delay_wait(h), Max(rate_wait(h), burst_wait(h)))

\* what the limiter holds for one host
host_state(h) == <<domain_limits[h], request_history[h], last_request[h], error_counts[h]>>

\* a step of wait_if_needed, handle_response or reset_domain_limits for host h
operates_on(h) ==
    \/ \E c \in Callers : pc[c] = "idle" /\ wait_if_needed_enter(c, h, "idle")
    \/ \E c \in Callers : w_domain[c] = h /\ wait_if_needed_wake(c, "idle")
    \/ \E s \in StatusCodes, rt \in ResponseTimes : handle_response(h, s, rt)
    \/ reset_domain_limits(h)

\* a caller sleeps in wait_if_needed for host h
sleeping_for(h) == \E c \in Callers : pc[c] = "sleeping" /\ w_domain[c] = h

\* C30: an operation for one host leaves every other host's limit, history,
\* last request time and error counter as they were, and the limit a host
\* without an own limit gets; a host nobody sleeps for can be operated on
\* whoever sleeps for another host
C30_HostIndependence ==
    [][\A h \in Hosts :
          /\ operates_on(h) =>
                \A g \in Hosts \ {h} :
                   /\ host_state(g)' = host_state(g)
                   /\ limit_of(g)' = limit_of(g)
          /\ ~sleeping_for(h) =>
                /\ ENABLED handle_response(h, 429, 200)
                /\ ENABLED reset_domain_limits(h)
                /\ \A c \in Callers :
                      pc[c] = "idle" => ENABLED wait_if_needed_enter(c, h, "idle")]_vars

\* a caller sleeps for h1, whose limit was lowered, and during its sleep a
\* request for h2 was admitted under the default limit
C30_Witness ==
    \E c \in Callers :
       /\ pc[c] = "sleeping"
       /\ w_domain[c] = "h1"
       /\ domain_limits["h1"] # NoLimit
       /\ domain_limits["h2"] = NoLimit
       /\ last_request["h2"] > w_current_time[c]

\* a cleanup_old_hashes is between its DELETE and the reload of the cache
cleanup_in_progress == \E w \in Workers : d_pc[w] \in {"cl_deleted", "cl_loaded"}

\* C29: whenever no cleanup_old_hashes is under way, each fingerprint in the
\* hot cache has a record in content_hashes
C29_CacheHasRecord == ~cleanup_in_progress => hash_cache \subseteq stored_hashes

====
